---- MODULE Spec2Model ----
(***************************************************************************)
(* Model of scripts/deploy-docs-review-command.py: the sequential loop of  *)
(* main() over the entries of a repository list, and the steps of          *)
(* process_repository() for one entry (classify, clone, makedirs, copy,    *)
(* chdir, git diff, git add, git commit, git push).                        *)
(*                                                                         *)
(* Paths are sequences of path components.  An absolute path <<"w","a">>   *)
(* is /w/a.  The target file of a directory d is always                    *)
(* d/.claude/commands/review-docs.md, so a file is named by its directory. *)
(* File contents are small numbers: 0 is "no such file".                   *)
(***************************************************************************)
EXTENDS Integers, Sequences, FiniteSets, TLC

VARIABLES
    listExists,       \* os.path.isfile(args.repo_list)
    sourceExists,     \* os.path.isfile(prompt_source)
    lines,            \* the lines of the list file
    args_commit,      \* args.commit
    args_push,        \* args.push
    dry_run,          \* args.dry_run
    repos,            \* main: repos
    idx,              \* main: idx of the for loop
    successful_repos, \* main: successful_repos
    failed_repos,     \* main: failed_repos
    results,          \* per entry, the (success, message) main received
    exit_code,        \* -1 while running, then the process exit status
    pc,               \* position in main / process_repository
    local_path,       \* process_repository: local_path
    cwd,              \* the process working directory
    dirs,             \* directories that exist
    gitDirs,          \* directories d for which d/.git is a directory
    cmdDirs,          \* directories d for which d/.claude/commands exists
    work,             \* target file content in the working tree, per directory
    index,            \* target file content in the git index
    head,             \* target file content in the HEAD commit
    commits,          \* commits created by this run, per repository root
    log               \* the calls made so far: subprocess runs, fs mutations, prints

vars == <<listExists, sourceExists, lines, args_commit, args_push, dry_run,
          repos, idx, successful_repos, failed_repos, results, exit_code, pc,
          local_path, cwd, dirs, gitDirs, cmdDirs, work, index, head, commits, log>>

inputVars == <<listExists, sourceExists, lines, args_push, dry_run>>
fsVars == <<dirs, gitDirs, cmdDirs, work, index, head, commits>>
countVars == <<successful_repos, failed_repos, results, idx>>

----------------------------------------------------------------------------
(* Bounds *)

MaxLines == 2

----------------------------------------------------------------------------
(* The entries, lines and directories the model draws its inputs from *)

E_absA  == [pre |-> "/",        comps |-> <<"w", "a">>, suf |-> ""]
E_relA  == [pre |-> "",         comps |-> <<"a">>,      suf |-> ""]
E_plain == [pre |-> "/",        comps |-> <<"w", "b">>, suf |-> ""]
E_none  == [pre |-> "/",        comps |-> <<"w", "c">>, suf |-> ""]
E_urlX  == [pre |-> "https://", comps |-> <<"h", "o", "x">>, suf |-> ".git"]
E_sshX  == [pre |-> "git@",     comps |-> <<"h:o", "x">>,    suf |-> ""]

Entries == {E_absA, E_relA, E_plain, E_none, E_urlX, E_sshX}

NoEntry == [pre |-> "", comps |-> <<>>, suf |-> ""]

\* A line is a sequence of tokens: white space, a '#...' comment, an entry.
WS      == [k |-> "ws",    e |-> NoEntry]
Hash    == [k |-> "hash",  e |-> NoEntry]
Tok(e)  == [k |-> "entry", e |-> e]

LineSet == {<<WS>>, <<WS, Hash, WS>>} \cup {<<Tok(e), WS>> : e \in Entries}

SeqsUpTo(S, n) == UNION {[1..m -> S] : m \in 0..n}

StartDir == <<"w">>
RepoA    == <<"w", "a">>
NestedA  == <<"w", "a", "a">>
PlainB   == <<"w", "b">>
TempDir  == <<"tmp">>
CloneX   == <<"tmp", "x">>

FileDirs == {RepoA, NestedA, CloneX}

Contents == {0, 1, 2}
SourceContent == 1

----------------------------------------------------------------------------
(* Pure helpers *)

\* is_remote_url: the three prefixes of line 61
is_remote_url(e) == e.pre \in {"http://", "https://", "git@"}

\* os.path.basename(repo_path).replace('.git', ''): the last component,
\* with the '.git' suffix removed
RepoName(e) == e.comps[Len(e.comps)]

\* str.strip(): drop leading and trailing white space
RECURSIVE LStrip(_)
LStrip(l) == IF l # <<>> /\ Head(l).k = "ws" THEN LStrip(Tail(l)) ELSE l

RECURSIVE RStrip(_)
RStrip(l) ==
    IF l # <<>> /\ l[Len(l)].k = "ws" THEN RStrip(SubSeq(l, 1, Len(l) - 1)) ELSE l

Strip(l) == RStrip(LStrip(l))

\* KeepLine without the startswith('#') test
KeepLine_KeepsComments(l) == Strip(l) # <<>>

\* `line and not line.startswith('#')`
KeepLine(l) == Strip(l) # <<>> /\ Head(Strip(l)).k # "hash"

\* read_repo_list: the stripped lines that are neither empty nor comments
RECURSIVE read_repo_list(_)
read_repo_list(ls) ==
    IF ls = <<>> THEN <<>>
    ELSE IF KeepLine(Head(ls))
         THEN <<Head(Strip(Head(ls))).e>> \o read_repo_list(Tail(ls))
         ELSE read_repo_list(Tail(ls))

NoPath == [abs |-> TRUE, comps |-> <<>>]

\* local_path of a remote entry: os.path.join(temp_dir, repo_name)
ClonePath(e) == [abs |-> TRUE, comps |-> TempDir \o <<RepoName(e)>>]

\* local_path of a local entry: the entry string itself
EntryPath(e) == [abs |-> e.pre = "/", comps |-> e.comps]

\* How the operating system resolves a path against the working directory
Resolve(c, p) == IF p.abs THEN p.comps ELSE c \o p.comps

IsPrefix(g, k) == Len(g) <= Len(k) /\ SubSeq(k, 1, Len(g)) = g

\* os.path.isdir(path)
IsDir(c, p) == Resolve(c, p) \in dirs

\* is_git_repo: os.path.isdir(os.path.join(path, '.git'))
is_git_repo(c, p) == Resolve(c, p) \in gitDirs

\* The repository git finds from working directory c: the nearest
\* directory at or above c that holds .git; <<>> when there is none
GitRoot(c) ==
    LET roots == {g \in gitDirs : IsPrefix(g, c)}
    IN  IF roots = {} THEN <<>>
        ELSE CHOOSE g \in roots : \A o \in roots : Len(o) <= Len(g)

W(k) == IF k \in DOMAIN work THEN work[k] ELSE 0
I(k) == IF k \in DOMAIN index THEN index[k] ELSE 0
H(k) == IF k \in DOMAIN head THEN head[k] ELSE 0

\* git sees the file of directory k when run from c
InRepo(c, k) == GitRoot(c) # <<>> /\ IsPrefix(GitRoot(c), k)

\* run_command(['git','diff','--quiet',target_file])[0]: True exactly on
\* exit status 0.  git exits 128/129 when it is outside a repository or
\* the path does not exist in the working tree, 1 when the tracked file
\* differs from the index, 0 otherwise (also for an untracked file).
GitDiffQuiet(c, k) == InRepo(c, k) /\ W(k) # 0 /\ (I(k) = 0 \/ I(k) = W(k))

\* run_command(['git','diff','--cached','--quiet',target_file])[0]
GitDiffCachedQuiet(c, k) == InRepo(c, k) /\ W(k) # 0 /\ I(k) = H(k)

\* the condition of line 141
CommitBranch(has_changes, has_staged_changes) == has_changes \/ has_staged_changes

\* git add succeeds when the path matches a file of the tree or the index
GitAddOk(c, k) == InRepo(c, k) /\ (W(k) # 0 \/ I(k) # 0)

\* git commit succeeds when the index differs from HEAD
GitCommitOk(c) ==
    GitRoot(c) # <<>> /\ \E k \in FileDirs : IsPrefix(GitRoot(c), k) /\ I(k) # H(k)

Outside(d, S) == {k \in S : ~IsPrefix(d, k)}

Logged(op, i, ok) == [op |-> op, i |-> i, ok |-> ok]

----------------------------------------------------------------------------
(* Initial states *)

Init ==
    /\ listExists \in BOOLEAN
    /\ sourceExists \in BOOLEAN
    /\ lines \in (IF listExists THEN SeqsUpTo(LineSet, MaxLines) ELSE {<<>>})
    /\ args_commit \in BOOLEAN
    /\ args_push \in BOOLEAN
    /\ dry_run \in BOOLEAN
    /\ repos = <<>>
    /\ idx = 0
    /\ successful_repos = 0
    /\ failed_repos = 0
    /\ results = <<>>
    /\ exit_code = -1
    /\ pc = "start"
    /\ local_path = NoPath
    /\ cwd = StartDir
    /\ dirs = {StartDir, RepoA, PlainB}
    /\ gitDirs = {RepoA}
    /\ \E w \in Contents, i \in Contents, h \in Contents :
         /\ cmdDirs = IF w # 0 THEN {RepoA} ELSE {}
         /\ work  = [k \in FileDirs |-> IF k = RepoA THEN w ELSE 0]
         /\ index = [k \in FileDirs |-> IF k = RepoA THEN i ELSE 0]
         /\ head  = [k \in FileDirs |-> IF k = RepoA THEN h ELSE 0]
    /\ commits = [k \in FileDirs |-> 0]
    /\ log = <<>>

----------------------------------------------------------------------------
(* main *)

\* lines 184-185: --push implies --commit
ParseArgs ==
    /\ pc = "start"
    /\ args_commit' = (args_commit \/ args_push)
    /\ pc' = "validate"
    /\ UNCHANGED <<inputVars, repos, countVars, exit_code, local_path, cwd, fsVars, log>>

\* lines 192-198: both input files must exist, else sys.exit(1)
Validate ==
    /\ pc = "validate"
    /\ IF ~listExists \/ ~sourceExists
       THEN /\ exit_code' = 1
            /\ pc' = "exited"
       ELSE /\ exit_code' = exit_code
            /\ pc' = "read"
    /\ UNCHANGED <<inputVars, args_commit, repos, countVars, local_path, cwd, fsVars, log>>

\* lines 214-225: read the list, exit 1 when it is empty, else zero the
\* statistics and create the temporary directory
ReadList ==
    /\ pc = "read"
    /\ repos' = read_repo_list(lines)
    /\ IF repos' = <<>>
       THEN /\ exit_code' = 1
            /\ pc' = "exited"
            /\ UNCHANGED <<countVars, dirs>>
       ELSE /\ exit_code' = exit_code
            /\ successful_repos' = 0
            /\ failed_repos' = 0
            /\ results' = <<>>
            /\ idx' = 1
            /\ dirs' = dirs \cup {TempDir}
            /\ pc' = "loop"
    /\ UNCHANGED <<inputVars, args_commit, local_path, cwd,
                   gitDirs, cmdDirs, work, index, head, commits, log>>

\* TemporaryDirectory.__exit__: remove the temporary tree
CleanDirs(S) == Outside(TempDir, S)
CleanFiles(f) == [k \in DOMAIN f |-> IF IsPrefix(TempDir, k) THEN 0 ELSE f[k]]

\* lines 227-238: the next entry is handed to process_repository; after
\* the last one the with block ends
LoopHead ==
    /\ pc = "loop"
    /\ IF idx <= Len(repos)
       THEN /\ pc' = "classify"
            /\ log' = Append(log, Logged("process_repository", idx, TRUE))
            /\ UNCHANGED fsVars
       ELSE /\ pc' = "summary"
            /\ dirs' = CleanDirs(dirs)
            /\ gitDirs' = CleanDirs(gitDirs)
            /\ cmdDirs' = CleanDirs(cmdDirs)
            /\ work' = CleanFiles(work)
            /\ index' = CleanFiles(index)
            /\ head' = CleanFiles(head)
            /\ UNCHANGED <<commits, log>>
    /\ UNCHANGED <<inputVars, args_commit, repos, countVars, exit_code, local_path, cwd>>

\* lines 240-245: main records what process_repository returned
Return(success, message) ==
    /\ results' = Append(results, [success |-> success, message |-> message])
    /\ successful_repos' = IF success THEN successful_repos + 1 ELSE successful_repos
    /\ failed_repos' = IF success THEN failed_repos ELSE failed_repos + 1
    /\ idx' = idx + 1
    /\ pc' = "loop"

\* lines 263-266: exit status
Summary ==
    /\ pc = "summary"
    /\ exit_code' = IF failed_repos > 0 THEN 1 ELSE 0
    /\ pc' = "exited"
    /\ UNCHANGED <<inputVars, args_commit, repos, countVars, local_path, cwd, fsVars, log>>

----------------------------------------------------------------------------
(* process_repository, one action per step *)

mainVars == <<inputVars, args_commit, repos, exit_code>>

\* Classify with the validation of lines 108-112 skipped on dry-run
Classify_DryRunSkipsValidation ==
    /\ pc = "classify"
    /\ LET e == repos[idx] IN
       IF is_remote_url(e)
       THEN /\ local_path' = ClonePath(e)
            /\ pc' = IF dry_run THEN "makedirs" ELSE "clone"
            /\ UNCHANGED countVars
       ELSE /\ local_path' = EntryPath(e)
            /\ IF ~dry_run /\ ~IsDir(cwd, EntryPath(e))
               THEN Return(FALSE, "Directory not found")
               ELSE IF ~dry_run /\ ~is_git_repo(cwd, EntryPath(e))
                    THEN Return(FALSE, "Not a git repository")
                    ELSE /\ pc' = "makedirs"
                         /\ UNCHANGED countVars
    /\ UNCHANGED <<mainVars, cwd, fsVars, log>>

\* lines 94-112: classify the entry and validate a local one
Classify ==
    /\ pc = "classify"
    /\ LET e == repos[idx] IN
       IF is_remote_url(e)
       THEN /\ local_path' = ClonePath(e)
            /\ pc' = IF dry_run THEN "makedirs" ELSE "clone"
            /\ UNCHANGED countVars
       ELSE /\ local_path' = EntryPath(e)
            /\ IF ~IsDir(cwd, EntryPath(e))
               THEN Return(FALSE, "Directory not found")
               ELSE IF ~is_git_repo(cwd, EntryPath(e))
                    THEN Return(FALSE, "Not a git repository")
                    ELSE /\ pc' = "makedirs"
                         /\ UNCHANGED countVars
    /\ UNCHANGED <<mainVars, cwd, fsVars, log>>

\* Clone with a failed git clone leaving its target directory behind
Clone_LeavesPartialClone ==
    /\ pc = "clone"
    /\ LET t == Resolve(cwd, local_path) IN
       \/ /\ t \notin dirs
          /\ t \in FileDirs
          /\ \E c \in Contents :
               /\ dirs' = dirs \cup {t}
               /\ gitDirs' = gitDirs \cup {t}
               /\ cmdDirs' = IF c # 0 THEN cmdDirs \cup {t} ELSE cmdDirs
               /\ work' = [work EXCEPT ![t] = c]
               /\ index' = [index EXCEPT ![t] = c]
               /\ head' = [head EXCEPT ![t] = c]
          /\ log' = Append(log, Logged("clone", idx, TRUE))
          /\ pc' = "makedirs"
          /\ UNCHANGED <<countVars, commits>>
       \/ /\ log' = Append(log, Logged("clone", idx, FALSE))
          /\ Return(FALSE, "Failed to clone repository")
          /\ dirs' = dirs \cup {t}
          /\ UNCHANGED <<gitDirs, cmdDirs, work, index, head, commits>>
    /\ UNCHANGED <<mainVars, local_path, cwd>>

\* lines 64-67 and 102-104: git clone either fails (always when the target
\* directory already exists) or creates a clean repository whose HEAD may
\* already hold the target file
Clone ==
    /\ pc = "clone"
    /\ LET t == Resolve(cwd, local_path) IN
       \/ /\ t \notin dirs
          /\ t \in FileDirs
          /\ \E c \in Contents :
               /\ dirs' = dirs \cup {t}
               /\ gitDirs' = gitDirs \cup {t}
               /\ cmdDirs' = IF c # 0 THEN cmdDirs \cup {t} ELSE cmdDirs
               /\ work' = [work EXCEPT ![t] = c]
               /\ index' = [index EXCEPT ![t] = c]
               /\ head' = [head EXCEPT ![t] = c]
          /\ log' = Append(log, Logged("clone", idx, TRUE))
          /\ pc' = "makedirs"
          /\ UNCHANGED <<countVars, commits>>
       \/ /\ log' = Append(log, Logged("clone", idx, FALSE))
          /\ Return(FALSE, "Failed to clone repository")
          /\ UNCHANGED fsVars
    /\ UNCHANGED <<mainVars, local_path, cwd>>

\* MakeDirs without the dry-run test of line 119
MakeDirs_IgnoresDryRun ==
    /\ pc = "makedirs"
    /\ IF FALSE
       THEN UNCHANGED <<cmdDirs, log>>
       ELSE /\ cmdDirs' = cmdDirs \cup {Resolve(cwd, local_path)}
            /\ log' = Append(log, Logged("makedirs", idx, TRUE))
    /\ pc' = "copy"
    /\ UNCHANGED <<mainVars, countVars, local_path, cwd,
                   dirs, gitDirs, work, index, head, commits>>

\* lines 115-123: os.makedirs(claude_dir, exist_ok=True) unless dry-run
MakeDirs ==
    /\ pc = "makedirs"
    /\ IF dry_run
       THEN UNCHANGED <<cmdDirs, log>>
       ELSE /\ cmdDirs' = cmdDirs \cup {Resolve(cwd, local_path)}
            /\ log' = Append(log, Logged("makedirs", idx, TRUE))
    /\ pc' = "copy"
    /\ UNCHANGED <<mainVars, countVars, local_path, cwd,
                   dirs, gitDirs, work, index, head, commits>>

\* lines 126-134: shutil.copy2(prompt_source, target_file) unless dry-run;
\* without --commit the entry is done
Copy ==
    /\ pc = "copy"
    /\ IF dry_run
       THEN UNCHANGED <<work, log>>
       ELSE /\ work' = [work EXCEPT ![Resolve(cwd, local_path)] = SourceContent]
            /\ log' = Append(log, Logged("copy", idx, TRUE))
    /\ IF args_commit
       THEN /\ pc' = "chdir"
            /\ UNCHANGED countVars
       ELSE Return(TRUE, "Repository processed successfully")
    /\ UNCHANGED <<mainVars, local_path, cwd, dirs, gitDirs, cmdDirs, index, head, commits>>

\* ChDir with the directory handed to git instead of os.chdir
ChDir_KeepsCwd ==
    /\ pc = "chdir"
    /\ IF IsDir(cwd, local_path)
       THEN /\ cwd' = cwd
            /\ log' = Append(log, Logged("chdir", idx, TRUE))
            /\ pc' = "diff"
            /\ UNCHANGED <<exit_code, fsVars>>
       ELSE /\ log' = Append(log, Logged("chdir", idx, FALSE))
            /\ pc' = "exited"
            /\ exit_code' = 1
            /\ dirs' = CleanDirs(dirs)
            /\ gitDirs' = CleanDirs(gitDirs)
            /\ cmdDirs' = CleanDirs(cmdDirs)
            /\ work' = CleanFiles(work)
            /\ index' = CleanFiles(index)
            /\ head' = CleanFiles(head)
            /\ UNCHANGED <<cwd, commits>>
    /\ UNCHANGED <<inputVars, args_commit, repos, countVars, local_path>>

\* line 135: os.chdir(local_path); FileNotFoundError is caught nowhere, so
\* it ends the with block (the temporary tree is removed) and the process
\* with a traceback and exit status 1
ChDir ==
    /\ pc = "chdir"
    /\ IF IsDir(cwd, local_path)
       THEN /\ cwd' = Resolve(cwd, local_path)
            /\ log' = Append(log, Logged("chdir", idx, TRUE))
            /\ pc' = "diff"
            /\ UNCHANGED <<exit_code, fsVars>>
       ELSE /\ log' = Append(log, Logged("chdir", idx, FALSE))
            /\ pc' = "exited"
            /\ exit_code' = 1
            /\ dirs' = CleanDirs(dirs)
            /\ gitDirs' = CleanDirs(gitDirs)
            /\ cmdDirs' = CleanDirs(cmdDirs)
            /\ work' = CleanFiles(work)
            /\ index' = CleanFiles(index)
            /\ head' = CleanFiles(head)
            /\ UNCHANGED <<cwd, commits>>
    /\ UNCHANGED <<inputVars, args_commit, repos, countVars, local_path>>

\* lines 138-144 and 167-168: the two git diff runs and the branch on them.
\* target_file is built from local_path, so git resolves it against the
\* working directory chdir has just set.
Diff ==
    /\ pc = "diff"
    /\ LET k == Resolve(cwd, local_path)
           has_changes == GitDiffQuiet(cwd, k)
           has_staged_changes == GitDiffCachedQuiet(cwd, k)
       IN  /\ IF CommitBranch(has_changes, has_staged_changes)
              THEN IF dry_run
                   THEN /\ log' = log \o <<Logged("diff", idx, has_changes),
                                            Logged("diff_cached", idx, has_staged_changes)>>
                        /\ Return(TRUE, "Repository processed successfully")
                   ELSE /\ log' = log \o <<Logged("diff", idx, has_changes),
                                            Logged("diff_cached", idx, has_staged_changes)>>
                        /\ pc' = "add"
                        /\ UNCHANGED countVars
              ELSE /\ log' = log \o <<Logged("diff", idx, has_changes),
                                       Logged("diff_cached", idx, has_staged_changes),
                                       Logged("print_no_changes", idx, TRUE)>>
                   /\ Return(TRUE, "Repository processed successfully")
    /\ UNCHANGED <<mainVars, local_path, cwd, fsVars>>

\* line 146: git add target_file; its result is ignored
Add ==
    /\ pc = "add"
    /\ LET k == Resolve(cwd, local_path) IN
         /\ index' = IF GitAddOk(cwd, k) THEN [index EXCEPT ![k] = W(k)] ELSE index
         /\ log' = Append(log, Logged("add", idx, GitAddOk(cwd, k)))
    /\ pc' = "commit"
    /\ UNCHANGED <<mainVars, countVars, local_path, cwd,
                   dirs, gitDirs, cmdDirs, work, head, commits>>

\* lines 147-157: git commit -m ...; its result is ignored and
\* "Changes committed" is printed; without --push the entry is done
Commit ==
    /\ pc = "commit"
    /\ LET g == GitRoot(cwd) IN
         IF GitCommitOk(cwd)
         THEN /\ head' = [k \in DOMAIN head |-> IF IsPrefix(g, k) THEN index[k] ELSE head[k]]
              /\ commits' = [commits EXCEPT ![g] = @ + 1]
         ELSE UNCHANGED <<head, commits>>
    /\ log' = log \o <<Logged("commit", idx, GitCommitOk(cwd)),
                       Logged("print_committed", idx, TRUE)>>
    /\ IF args_push
       THEN /\ pc' = "push"
            /\ UNCHANGED countVars
       ELSE Return(TRUE, "Repository processed successfully")
    /\ UNCHANGED <<mainVars, local_path, cwd, dirs, gitDirs, cmdDirs, work, index>>

\* Push with the result of git push returned as the entry's result
Push_ReturnsPushResult ==
    /\ pc = "push"
    /\ \E success \in BOOLEAN :
         /\ log' = Append(log, Logged("push", idx, success))
         /\ Return(success, "Repository processed successfully")
    /\ UNCHANGED <<mainVars, local_path, cwd, fsVars>>

\* lines 158-170: git push succeeds or fails; either way the entry
\* returns success
Push ==
    /\ pc = "push"
    /\ \E success \in BOOLEAN :
         log' = Append(log, Logged("push", idx, success))
    /\ Return(TRUE, "Repository processed successfully")
    /\ UNCHANGED <<mainVars, local_path, cwd, fsVars>>

----------------------------------------------------------------------------

Next ==
    \/ ParseArgs
    \/ Validate
    \/ ReadList
    \/ LoopHead
    \/ Classify
    \/ Clone
    \/ MakeDirs
    \/ Copy
    \/ ChDir
    \/ Diff
    \/ Add
    \/ Commit
    \/ Push
    \/ Summary

Spec == Init /\ [][Next]_vars

----------------------------------------------------------------------------
(* Vocabulary of the properties *)

InLoop == idx \in 1..Len(repos)

ProcessSteps == {"classify", "clone", "makedirs", "copy", "chdir", "diff",
                 "add", "commit", "push"}

MutatingOps == {"clone", "makedirs", "copy", "add", "commit", "push"}

Calls == SelectSeq(log, LAMBDA r : r.op = "process_repository")

HasOp(op, i) == \E n \in 1..Len(log) : log[n].op = op /\ log[n].i = i

\* op a was logged for entry i before op b
Before(a, b, i) ==
    \E m, n \in 1..Len(log) :
        m < n /\ log[m].op = a /\ log[m].i = i /\ log[n].op = b /\ log[n].i = i

EndsWith(c, t) == Len(t) <= Len(c) /\ SubSeq(c, Len(c) - Len(t) + 1, Len(c)) = t

RecordedSuccess == successful_repos' = successful_repos + 1
RecordedFailure == failed_repos' = failed_repos + 1

\* everything on disk outside the temporary directory
DiskFrame ==
    /\ dirs' \cup {TempDir} = dirs \cup {TempDir}
    /\ UNCHANGED <<gitDirs, cmdDirs, work, index, head, commits>>

----------------------------------------------------------------------------
(* C1 *)

\* C1: once the list is non-empty the loop calls process_repository once
\* per entry, in order, and no call raises out of the loop: when the
\* process has exited, every entry has a recorded success or failure.
C1_NoCallRaisesOutOfLoop ==
    (pc = "exited" /\ repos # <<>>) =>
        /\ Len(results) = Len(repos)
        /\ Len(Calls) = Len(repos)
        /\ \A n \in 1..Len(Calls) : Calls[n].i = n

(* C2 *)

\* C2: with both input files present and a non-empty list, the exit code
\* is 1 exactly when at least one entry was reported failed, and it is
\* decided after every entry was attempted.
C2_ExitCodeIffFailed ==
    (pc = "exited" /\ listExists /\ sourceExists /\ repos # <<>>) =>
        /\ (exit_code = 1) <=> (\E n \in 1..Len(results) : ~results[n].success)
        /\ exit_code \in {0, 1}
        /\ Len(results) = Len(repos)

(* C3 *)

\* C3: with dry-run set no step of process_repository clones, creates a
\* directory, copies the file or runs git add, git commit or git push:
\* the disk is left as it was and no such call is made.
C3_DryRunMutatesNothing ==
    [][(dry_run /\ pc \in ProcessSteps) =>
          /\ DiskFrame
          /\ pc' \notin {"clone", "add", "commit", "push"}
          /\ \A n \in 1..Len(log') : log'[n].op \notin MutatingOps]_vars

C3_Witness ==
    /\ dry_run
    /\ args_push
    /\ pc = "exited"
    /\ Len(results) = 2
    /\ \E n \in 1..Len(log) : log[n].op = "diff" /\ log[n].ok

(* C4 *)

C5_SecondRunNoChanges ==
    [][(/\ pc = "diff"
        /\ ~dry_run
        /\ cwd \in gitDirs
        /\ W(cwd) = SourceContent
        /\ I(cwd) = SourceContent
        /\ H(cwd) = SourceContent) =>
          /\ pc' = "loop"
          /\ log'[Len(log')].op = "print_no_changes"
          /\ commits' = commits]_vars

(* C6 *)

\* C6: for a valid local repository with no prior copy of the target file
\* (nothing in index or HEAD), a run with commit and without dry-run has
\* the file copied before the diff, goes from the diff to git add and on
\* to git commit for that file, and the commit is a new one holding it.
C6_FreshRepoGetsCommit ==
    [][(/\ ~dry_run
        /\ pc \in {"diff", "add", "commit"}
        /\ ~is_remote_url(repos[idx])
        /\ H(cwd) = 0) =>
          /\ (pc = "diff" /\ I(cwd) = 0) =>
                 /\ W(cwd) = SourceContent
                 /\ HasOp("copy", idx)
                 /\ pc' = "add"
          /\ (pc = "add" /\ I(cwd) = 0) =>
                 /\ index'[cwd] = SourceContent
                 /\ pc' = "commit"
          /\ (pc = "commit" /\ I(cwd) = SourceContent) =>
                 /\ head'[cwd] = SourceContent
                 /\ commits'[cwd] = commits[cwd] + 1
                 /\ Before("add", "commit", idx)']_vars

(* C7 *)

\* C7: a local path that is not a directory, a local directory without
\* .git and a remote URL whose clone fails are each counted failed, and
\* recording a failure leaves the disk and the working directory as they
\* were, with no makedirs, copy, chdir or git diff/add/commit/push made
\* for that entry; so the later entries start from the state they would
\* start from without it.
C7_FailureHasNoEffect ==
    [][(pc \in ProcessSteps) =>
          LET e == repos[idx]
              target == Resolve(cwd, EntryPath(e))
          IN  /\ (pc = "classify" /\ ~is_remote_url(e) /\ target \notin dirs)
                     => RecordedFailure
              /\ (pc = "classify" /\ ~is_remote_url(e) /\ target \notin gitDirs)
                     => RecordedFailure
              /\ (pc = "clone" /\ log'[Len(log')] = Logged("clone", idx, FALSE))
                     => RecordedFailure
              /\ RecordedFailure =>
                     /\ pc \in {"classify", "clone"}
                     /\ UNCHANGED <<fsVars, cwd>>
                     /\ successful_repos' = successful_repos
                     /\ idx' = idx + 1
                     /\ pc' = "loop"
                     /\ \A n \in 1..Len(log') :
                            log'[n].i = idx =>
                                \/ log'[n].op = "process_repository"
                                \/ log'[n] = Logged("clone", idx, FALSE)]_vars

C7_Witness ==
    /\ pc = "exited"
    /\ Len(results) = 2
    /\ results[1] = [success |-> FALSE, message |-> "Failed to clone repository"]
    /\ results[2].success
    /\ HasOp("clone", 2)
    /\ HasOp("commit", 2)
    /\ exit_code = 1

(* C8 *)

BlankOrComment(l) == l \in {<<WS>>, <<WS, Hash, WS>>}

FatalInput ==
    \/ ~listExists
    \/ ~sourceExists
    \/ \A n \in 1..Len(lines) : BlankOrComment(lines[n])

\* C8: with the list file missing, the source file missing, or a list of
\* only blank and comment lines, the run never enters the loop: it exits
\* with code 1, no entry is processed, the temporary directory is never
\* created and nothing on disk or the working directory changes; with a
\* file missing the list is not even read.
C8_FatalBeforeProcessing ==
    /\ [](FatalInput =>
            /\ pc \in {"start", "validate", "read", "exited"}
            /\ pc = "exited" => exit_code = 1
            /\ log = <<>>
            /\ results = <<>>
            /\ repos = <<>>
            /\ TempDir \notin dirs
            /\ (~listExists \/ ~sourceExists) => pc # "read")
    /\ [][FatalInput => UNCHANGED <<fsVars, cwd>>]_vars

C8_Witness ==
    /\ pc = "exited"
    /\ listExists
    /\ sourceExists
    /\ lines = << <<WS, Hash, WS>>, <<WS>> >>
    /\ exit_code = 1

(* C9 *)

PushFailed(i) == \E n \in 1..Len(log) : log[n] = Logged("push", i, FALSE)

\* C9: git push is run only with push requested, dry-run off, and after
\* git add and git commit were run for the same entry; an entry whose
\* push failed is still recorded successful, and a run with a failed push
\* exits 1 only if some entry was recorded failed.
C9_PushFailureKeepsSuccess ==
    /\ \A n \in 1..Len(log) :
           log[n].op = "push" =>
               LET i == log[n].i
               IN  /\ args_push
                   /\ ~dry_run
                   /\ Before("add", "commit", i)
                   /\ Before("commit", "push", i)
                   /\ i <= Len(results)
                   /\ results[i].success
    /\ (pc = "exited" /\ \E i \in 1..Len(repos) : PushFailed(i)) =>
           /\ successful_repos + failed_repos = Len(repos)
           /\ (exit_code = 1) <=> (failed_repos > 0)
           /\ (exit_code = 0) <=> (\A n \in 1..Len(results) : results[n].success)

C9_Witness ==
    /\ pc = "exited"
    /\ exit_code = 0
    /\ Len(repos) = 2
    /\ PushFailed(1)
    /\ PushFailed(2)
    /\ successful_repos = 2

(* C10 *)

\* C10: the working directory changes only at the chdir step of an entry
\* processed with commit requested, to that entry's resolved local path,
\* and nothing restores it: an entry with commit requested that is
\* recorded successful leaves the working directory at its own path, the
\* next local entry is validated against that directory, and git add
\* touches the file the target path names from inside it.  Without commit
\* requested the working directory never changes.
C10_SharedWorkingDirectory ==
    [][(/\ cwd' # cwd =>
               /\ args_commit
               /\ pc = "chdir"
               /\ cwd' = Resolve(cwd, local_path)
        /\ (pc = "chdir" /\ pc' = "diff") => cwd' = Resolve(cwd, local_path)
        /\ (pc \in ProcessSteps /\ args_commit /\ RecordedSuccess) =>
               /\ cwd' = cwd
               /\ cwd \in gitDirs
               /\ IF is_remote_url(repos[idx])
                  THEN cwd = TempDir \o <<RepoName(repos[idx])>>
                  ELSE IF repos[idx].pre = "/"
                       THEN cwd = repos[idx].comps
                       ELSE EndsWith(cwd, repos[idx].comps)
        /\ (pc = "classify" /\ ~is_remote_url(repos[idx])) =>
               (pc' = "makedirs" <=>
                   (IF repos[idx].pre = "/" THEN repos[idx].comps
                    ELSE cwd \o repos[idx].comps) \in (dirs \cap gitDirs))
        /\ pc = "add" =>
               \A k \in FileDirs :
                   index'[k] # index[k] =>
                       k = (IF local_path.abs THEN local_path.comps
                            ELSE cwd \o local_path.comps))]_vars

C10_Witness ==
    /\ pc = "exited"
    /\ repos = <<E_relA, E_relA>>
    /\ results[1].success
    /\ results[2] = [success |-> FALSE, message |-> "Directory not found"]
    /\ cwd = RepoA
    /\ W(RepoA) = SourceContent

====
